---------------------------- MODULE Spec2Model ----------------------------
(***************************************************************************)
(* Model of app.py: the tweet cleaning, sentiment scoring, fetching and    *)
(* summary pipeline of the celebrity sentiment dashboard.                  *)
(*                                                                         *)
(* Texts are sequences of one-character strings.  Compound scores are      *)
(* integers in hundredths (-100..100 stands for -1.00..1.00), unrounded    *)
(* confidences are integers in thousandths, rounded confidences are in     *)
(* hundredths and percentages are in tenths of a percent.                  *)
(***************************************************************************)
EXTENDS Integers, Sequences, FiniteSets

VARIABLES
    \* clean_text called on a text, then on its own output
    ct_pc, text, cleaned, recleaned,
    \* one call of analyze_sentiment
    as_pc, as_text, compound, has_opinion, raw_confidence, result,
    \* one call of fetch_tweets
    ft_pc, max_tweets, tweets, pages_fetched, delivered, ft_message,
    \* one run of main
    pc, engine, fetched, df, message, plot, stats

ctVars == <<ct_pc, text, cleaned, recleaned>>
asVars == <<as_pc, as_text, compound, has_opinion, raw_confidence, result>>
ftVars == <<ft_pc, max_tweets, tweets, pages_fetched, delivered, ft_message>>
mainVars == <<pc, engine, fetched, df, message, plot, stats>>
vars == <<ctVars, asVars, ftVars, mainVars>>

-----------------------------------------------------------------------------
(* Bounds of the model *)

\* longest input of clean_text, in pieces (a separator and a word each)
MaxPieces == 4
\* longest input of analyze_sentiment, in words
MaxWords == 2
\* largest max_tweets given to fetch_tweets
MaxTweetsArg == 25
\* longest list of posts main receives from fetch_tweets
MaxPosts == 3

-----------------------------------------------------------------------------
(* Strings *)

\* str.isspace / regex \s on the characters the model uses
Whitespace == {" ", "\n", "\t"}

IsSpace(c) == c \in Whitespace

Upper == <<"A","B","C","D","E","F","G","H","I","J","K","L","M","N","O","P","Q","R","S","T","U","V","W","X","Y","Z">>
Lower == <<"a","b","c","d","e","f","g","h","i","j","k","l","m","n","o","p","q","r","s","t","u","v","w","x","y","z">>

\* str.lower
lower(s) ==
    [i \in 1..Len(s) |->
        IF \E k \in 1..26 : Upper[k] = s[i]
        THEN Lower[CHOOSE k \in 1..26 : Upper[k] = s[i]]
        ELSE s[i]]

\* s[i:].startswith(p), i counted from 1
StartsWithAt(s, i, p) ==
    /\ i + Len(p) - 1 <= Len(s)
    /\ \A k \in 1..Len(p) : s[i + k - 1] = p[k]

\* str.startswith
startswith(s, p) == StartsWithAt(s, 1, p)

\* sub in s
contains(s, sub) == \E i \in 1..(Len(s) + 1) : StartsWithAt(s, i, sub)

\* str.strip
strip(s) ==
    IF \A i \in 1..Len(s) : IsSpace(s[i]) THEN <<>>
    ELSE LET first == CHOOSE i \in 1..Len(s) :
                         /\ ~IsSpace(s[i])
                         /\ \A j \in 1..(i - 1) : IsSpace(s[j])
             last  == CHOOSE i \in 1..Len(s) :
                         /\ ~IsSpace(s[i])
                         /\ \A j \in (i + 1)..Len(s) : IsSpace(s[j])
         IN  SubSeq(s, first, last)

\* last index of the run of non-whitespace characters that starts at i
RunEnd(s, i) ==
    CHOOSE k \in i..Len(s) :
        /\ \A j \in i..k : ~IsSpace(s[j])
        /\ (k = Len(s) \/ IsSpace(s[k + 1]))

RECURSIVE SplitFrom(_, _)
SplitFrom(s, i) ==
    IF i > Len(s) THEN <<>>
    ELSE IF IsSpace(s[i]) THEN SplitFrom(s, i + 1)
    ELSE <<SubSeq(s, i, RunEnd(s, i))>> \o SplitFrom(s, RunEnd(s, i) + 1)

\* str.split() with no argument
split(s) == SplitFrom(s, 1)

RECURSIVE JoinFrom(_, _)
JoinFrom(ws, i) ==
    IF i > Len(ws) THEN <<>>
    ELSE IF i = Len(ws) THEN ws[i]
    ELSE ws[i] \o <<" ">> \o JoinFrom(ws, i + 1)

\* ' '.join(ws)
join(ws) == JoinFrom(ws, 1)

-----------------------------------------------------------------------------
(* clean_text *)

prefixes ==
    { <<"B","R","E","A","K","I","N","G",":">>,
      <<"B","r","e","a","k","i","n","g",":">>,
      <<"U","P","D","A","T","E",":">>,
      <<"W","A","T","C","H",":">>,
      <<"N","E","W",":">>,
      <<"E","X","C","L","U","S","I","V","E",":">>,
      <<"R","E","P","O","R","T",":">>,
      <<"R","e","p","o","r","t",":">>,
      <<"J","U","S","T"," ","I","N",":">>,
      <<"J","u","s","t"," ","i","n",":">> }

\* the pattern with its 'www' alternative left out
UrlAlternativesWithoutWww == << <<"h","t","t","p">>, <<"h","t","t","p","s">> >>

\* the alternatives of r'http\S+|www\S+|https\S+', in order
UrlAlternatives == << <<"h","t","t","p">>, <<"w","w","w">>, <<"h","t","t","p","s">> >>

\* alternative a matches at i: its literal, then at least one non-whitespace
AlternativeMatches(s, i, a) ==
    /\ StartsWithAt(s, i, a)
    /\ i + Len(a) <= Len(s)
    /\ ~IsSpace(s[i + Len(a)])

\* a match of the pattern starts at i
UrlMatchesAt(s, i) ==
    \E n \in 1..Len(UrlAlternatives) : AlternativeMatches(s, i, UrlAlternatives[n])

\* last index of the match at i: the first alternative that matches, its \S+
\* taking the whole run of non-whitespace
UrlMatchEnd(s, i) ==
    LET n == CHOOSE n \in 1..Len(UrlAlternatives) :
                 /\ AlternativeMatches(s, i, UrlAlternatives[n])
                 /\ \A m \in 1..(n - 1) : ~AlternativeMatches(s, i, UrlAlternatives[m])
    IN  RunEnd(s, i + Len(UrlAlternatives[n]))

RECURSIVE RemoveUrlsFrom(_, _)
RemoveUrlsFrom(s, i) ==
    IF i > Len(s) THEN <<>>
    ELSE IF UrlMatchesAt(s, i) THEN RemoveUrlsFrom(s, UrlMatchEnd(s, i) + 1)
    ELSE <<s[i]>> \o RemoveUrlsFrom(s, i + 1)

\* re.sub(r'http\S+|www\S+|https\S+', '', s): leftmost matches, left to right
remove_urls(s) == RemoveUrlsFrom(s, 1)

\* the prefix test on the text as given, not on text.strip()
has_rejected_prefix_unstripped(s) == \E p \in prefixes : startswith(s, p)

\* any(text.strip().startswith(prefix) for prefix in [...])
has_rejected_prefix(s) == \E p \in prefixes : startswith(strip(s), p)

\* ' '.join(text.split())
collapse_whitespace(s) == join(split(s))

\* the shortest text clean_text returns, in tokens
MinTokens == 3

\* clean_text with the length test off by one (<= for <)
clean_text_length_off_by_one(s) ==
    IF has_rejected_prefix(s) THEN <<>>
    ELSE LET t == collapse_whitespace(remove_urls(s))
         IN  IF Len(split(t)) <= MinTokens THEN <<>> ELSE t

\* clean_text(text); the empty sequence is the empty string
clean_text(s) ==
    IF has_rejected_prefix(s) THEN <<>>
    ELSE LET t == collapse_whitespace(remove_urls(s))
         IN  IF Len(split(t)) < MinTokens THEN <<>> ELSE t


-----------------------------------------------------------------------------
(* analyze_sentiment *)

opinion_words ==
    { <<"t","h","i","n","k">>,
      <<"f","e","e","l">>,
      <<"b","e","l","i","e","v","e">>,
      <<"o","p","i","n","i","o","n">>,
      <<"l","o","v","e">>,
      <<"h","a","t","e">>,
      <<"a","m","a","z","i","n","g">>,
      <<"t","e","r","r","i","b","l","e">>,
      <<"w","o","r","s","t">>,
      <<"b","e","s","t">>,
      <<"o","v","e","r","r","a","t","e","d">>,
      <<"u","n","d","e","r","r","a","t","e","d">>,
      <<"d","e","s","e","r","v","e","s">>,
      <<"s","h","o","u","l","d">>,
      <<"w","o","u","l","d">>,
      <<"c","o","u","l","d">>,
      <<"g","r","e","a","t">>,
      <<"a","w","f","u","l">>,
      <<"b","a","d">>,
      <<"g","o","o","d">>,
      <<"f","a","n","t","a","s","t","i","c">>,
      <<"h","o","r","r","i","b","l","e">> }

\* any(word in text.lower() for word in opinion_words)
detect_opinion(s) == \E w \in opinion_words : contains(lower(s), w)

\* the thresholds on compound, in hundredths
OpinionPositive == 30
OpinionNegative == -30
PlainPositive == 50
PlainNegative == -50
\* the factor 1.2, in tenths
OpinionBoost == 12

Abs(x) == IF x < 0 THEN -x ELSE x
Min(a, b) == IF a <= b THEN a ELSE b

\* the branches with the two regimes' thresholds exchanged
classify_regimes_swapped(c, opinion) ==
    IF opinion
    THEN IF c >= PlainPositive
         THEN [sentiment |-> "positive", confidence |-> Min(Abs(c) * OpinionBoost, 1000)]
         ELSE IF c <= PlainNegative
         THEN [sentiment |-> "negative", confidence |-> Min(Abs(c) * OpinionBoost, 1000)]
         ELSE [sentiment |-> "neutral", confidence |-> 1000 - Abs(c) * 10]
    ELSE IF c >= OpinionPositive
         THEN [sentiment |-> "positive", confidence |-> Min(Abs(c) * 10, 1000)]
         ELSE IF c <= OpinionNegative
         THEN [sentiment |-> "negative", confidence |-> Min(Abs(c) * 10, 1000)]
         ELSE [sentiment |-> "neutral", confidence |-> 1000 - Abs(c) * 10]

\* the if/elif/else of analyze_sentiment: the label and the confidence before
\* rounding, in thousandths, for compound c in hundredths
classify(c, opinion) ==
    IF opinion
    THEN IF c >= OpinionPositive
         THEN [sentiment |-> "positive", confidence |-> Min(Abs(c) * OpinionBoost, 1000)]
         ELSE IF c <= OpinionNegative
         THEN [sentiment |-> "negative", confidence |-> Min(Abs(c) * OpinionBoost, 1000)]
         ELSE [sentiment |-> "neutral", confidence |-> 1000 - Abs(c) * 10]
    ELSE IF c >= PlainPositive
         THEN [sentiment |-> "positive", confidence |-> Min(Abs(c) * 10, 1000)]
         ELSE IF c <= PlainNegative
         THEN [sentiment |-> "negative", confidence |-> Min(Abs(c) * 10, 1000)]
         ELSE [sentiment |-> "neutral", confidence |-> 1000 - Abs(c) * 10]

\* n / d rounded to the nearest integer, halves to the even one (n, d >= 0)
RoundDiv(n, d) ==
    LET q == n \div d
        r == n % d
    IN  IF 2 * r < d THEN q
        ELSE IF 2 * r > d THEN q + 1
        ELSE IF q % 2 = 0 THEN q ELSE q + 1

\* round(confidence, 2): thousandths to hundredths
round2(x) == RoundDiv(x, 10)

\* analyze_sentiment(text) where the engine scores text as c: the returned
\* dict, confidence and compound in hundredths
analyze_sentiment(s, c) ==
    IF s = <<>>
    THEN [sentiment |-> "neutral", confidence |-> 0, compound |-> 0]
    ELSE LET r == classify(c, detect_opinion(s))
         IN  [sentiment |-> r.sentiment,
              confidence |-> round2(r.confidence),
              compound |-> c]

-----------------------------------------------------------------------------
(* fetch_tweets *)

\* max_results=10: the most posts one page holds
max_results == 10

\* limit=(max_tweets + 9) // 10: the most pages the paginator requests
page_limit(n) == (n + 9) \div 10

\* the list kept whole where the code cuts it to max_tweets
slice_not_taken(ts, n) == ts

\* ts[:n]
slice(ts, n) == SubSeq(ts, 1, Min(n, Len(ts)))

\* the k posts of the next page: posts are numbered in the order in which
\* the paginator delivers them
page_posts(first, k) == [i \in 1..k |-> first + i - 1]

-----------------------------------------------------------------------------
(* main and plot_sentiment: the data frame and its summaries *)

\* the texts kept by df[df['cleaned_text'].str.len() > 0] taken as all of them
drop_empty_keeps_all(rows) == rows

\* df[df['cleaned_text'].str.len() > 0].reset_index(drop=True)
drop_empty(rows) == SelectSeq(rows, LAMBDA r : Len(r.cleaned_text) > 0)

\* the column df['text'].apply(clean_text) added to the fetched posts
with_cleaned_text(posts) ==
    [i \in 1..Len(posts) |-> [text |-> posts[i], cleaned_text |-> clean_text(posts[i])]]

\* the columns sentiment, sentiment_label and confidence added to the rows;
\* polarity gives the engine's compound score of a text
with_sentiment(rows, polarity) ==
    [i \in 1..Len(rows) |->
        LET t == rows[i].cleaned_text
            r == IF t = <<>> THEN analyze_sentiment(t, 0)
                 ELSE analyze_sentiment(t, polarity[t])
        IN  [text |-> rows[i].text,
             cleaned_text |-> t,
             sentiment |-> r,
             sentiment_label |-> r.sentiment,
             confidence |-> r.confidence]]

\* the number of rows labelled l
count_of(rows, l) == Cardinality({ i \in 1..Len(rows) : rows[i].sentiment_label = l })

\* df['sentiment_label'].value_counts(): a count for each label that occurs
value_counts(rows) ==
    [l \in { rows[i].sentiment_label : i \in 1..Len(rows) } |-> count_of(rows, l)]

\* percentages cut to one decimal instead of rounded
percentages_truncated(counts, total) ==
    [l \in DOMAIN counts |-> (counts[l] * 1000) \div total]

\* (sentiment_counts / total * 100).round(1) and f"{percentage:.1f}": tenths
\* of a percent
percentages(counts, total) ==
    [l \in DOMAIN counts |-> RoundDiv(counts[l] * 1000, total)]

\* the labels' spellings, which pandas compares when it sorts the modes
spelling(l) ==
    IF l = "positive" THEN <<"p","o","s","i","t","i","v","e">>
    ELSE IF l = "neutral" THEN <<"n","e","u","t","r","a","l">>
    ELSE <<"n","e","g","a","t","i","v","e">>

\* the place of a lowercase letter in the alphabet
ord(c) == CHOOSE k \in 1..26 : Lower[k] = c

\* a < b for str
str_less(a, b) ==
    \/ /\ Len(a) < Len(b)
       /\ \A i \in 1..Len(a) : a[i] = b[i]
    \/ \E k \in 1..Min(Len(a), Len(b)) :
        /\ \A i \in 1..(k - 1) : a[i] = b[i]
        /\ ord(a[k]) < ord(b[k])

\* Series.mode(): the labels with the largest count
modes(rows) ==
    LET counts == value_counts(rows)
    IN  { l \in DOMAIN counts : \A m \in DOMAIN counts : counts[m] <= counts[l] }

\* the last of the sorted modes taken for the first
most_common_last(rows) ==
    CHOOSE l \in modes(rows) :
        \A m \in modes(rows) : m = l \/ str_less(spelling(m), spelling(l))

\* df['sentiment_label'].mode()[0]: mode() returns the modes sorted
most_common(rows) ==
    CHOOSE l \in modes(rows) :
        \A m \in modes(rows) : m = l \/ str_less(spelling(l), spelling(m))

RECURSIVE SumConfidence(_, _)
SumConfidence(rows, i) ==
    IF i > Len(rows) THEN 0 ELSE rows[i].confidence + SumConfidence(rows, i + 1)

\* f"{df['confidence'].mean():.2f}", in hundredths
avg_confidence(rows) == RoundDiv(SumConfidence(rows, 1), Len(rows))

\* plot_sentiment(df): the bars' heights and their percentage labels
plot_sentiment(rows) ==
    [sentiment_counts |-> value_counts(rows),
     percentages |-> percentages(value_counts(rows), Len(rows))]

\* the "Analysis Statistics" and "Sentiment Distribution" blocks of main
statistics(rows) ==
    [avg_confidence |-> avg_confidence(rows),
     most_common |-> most_common(rows),
     sentiment_counts |-> value_counts(rows),
     percentages |-> percentages(value_counts(rows), Len(rows))]

-----------------------------------------------------------------------------
(* Values of the variables of the calls a specification does not make *)

CtIdle == ct_pc = "idle" /\ text = <<>> /\ cleaned = <<>> /\ recleaned = <<>>

AsIdle ==
    /\ as_pc = "idle" /\ as_text = <<>> /\ compound = 0 /\ has_opinion = FALSE
    /\ raw_confidence = 0 /\ result = <<>>

FtIdle ==
    /\ ft_pc = "idle" /\ max_tweets = 0 /\ tweets = <<>> /\ pages_fetched = 0
    /\ delivered = 0 /\ ft_message = "none"

MainIdle ==
    /\ pc = "idle" /\ engine = <<>> /\ fetched = <<>> /\ df = <<>>
    /\ message = "none" /\ plot = <<>> /\ stats = <<>>

-----------------------------------------------------------------------------
(* clean_text on a text and then on what it returned *)

\* the pieces inputs are built from: a plain word, the words of the prefix
\* 'JUST IN:', a URL and a bare 'http', each at the start of a token (after a
\* space or a newline) or continuing the token before it
CleanPieces ==
    { <<"s">>, <<" ","s">>, <<"\n","s">>,
      <<"J","U","S","T">>, <<" ","J","U","S","T">>,
      <<" ","I","N",":">>, <<"\n","I","N",":">>,
      <<"w","w","w","s">>, <<" ","w","w","w","s">>,
      <<"h","t","t","p">>, <<" ","h","t","t","p">> }

RECURSIVE ConcatPieces(_, _)
ConcatPieces(ps, i) ==
    IF i > Len(ps) THEN <<>>
    ELSE ps[i] \o ConcatPieces(ps, i + 1)

CleanInputs ==
    { ConcatPieces(ps, 1) :
        ps \in UNION { [1..n -> CleanPieces] : n \in 0..MaxPieces } }

InitClean ==
    /\ ct_pc = "input"
    /\ text \in CleanInputs
    /\ cleaned = <<>>
    /\ recleaned = <<>>
    /\ AsIdle /\ FtIdle /\ MainIdle

\* cleaned = clean_text(text)
CleanText ==
    /\ ct_pc = "input"
    /\ cleaned' = clean_text(text)
    /\ ct_pc' = "cleaned"
    /\ UNCHANGED <<text, recleaned, asVars, ftVars, mainVars>>

\* recleaned = clean_text(cleaned), for a present cleaned text
CleanAgain ==
    /\ ct_pc = "cleaned"
    /\ cleaned # <<>>
    /\ recleaned' = clean_text(cleaned)
    /\ ct_pc' = "recleaned"
    /\ UNCHANGED <<text, cleaned, asVars, ftVars, mainVars>>

NextClean == CleanText \/ CleanAgain

SpecClean == InitClean /\ [][NextClean]_vars

\* a match of the URL pattern somewhere in s, stated on the characters
HasUrl(s) ==
    \E i \in 1..Len(s) :
        \/ /\ i + 4 <= Len(s)
           /\ SubSeq(s, i, i + 3) = <<"h","t","t","p">>
           /\ s[i + 4] \notin {" ", "\n", "\t"}
        \/ /\ i + 3 <= Len(s)
           /\ SubSeq(s, i, i + 2) = <<"w","w","w">>
           /\ s[i + 3] \notin {" ", "\n", "\t"}

\* the number of whitespace-delimited tokens of s, counted by their first
\* characters
TokenCount(s) ==
    Cardinality({ i \in 1..Len(s) :
        /\ s[i] \notin {" ", "\n", "\t"}
        /\ (i = 1 \/ s[i - 1] \in {" ", "\n", "\t"}) })

\* tokens joined by single spaces, nothing before or after them
SingleSpaced(s) ==
    /\ \A i \in 1..Len(s) : s[i] \notin {"\n", "\t"}
    /\ \A i \in 1..(Len(s) - 1) : ~(s[i] = " " /\ s[i + 1] = " ")
    /\ (s # <<>> => s[1] # " " /\ s[Len(s)] # " ")

\* the text, leading whitespace skipped, starts with one of the ten prefixes
StartsWithAnnouncement(s) ==
    \E k \in 0..Len(s) :
        /\ \A j \in 1..k : s[j] \in {" ", "\n", "\t"}
        /\ \E p \in { <<"B","R","E","A","K","I","N","G",":">>,
                      <<"B","r","e","a","k","i","n","g",":">>,
                      <<"U","P","D","A","T","E",":">>,
                      <<"W","A","T","C","H",":">>,
                      <<"N","E","W",":">>,
                      <<"E","X","C","L","U","S","I","V","E",":">>,
                      <<"R","E","P","O","R","T",":">>,
                      <<"R","e","p","o","r","t",":">>,
                      <<"J","U","S","T"," ","I","N",":">>,
                      <<"J","u","s","t"," ","i","n",":">> } :
              /\ k + Len(p) <= Len(s)
              /\ SubSeq(s, k + 1, k + Len(p)) = p

\* C3: clean_text is idempotent on its own outputs: cleaning a present
\* cleaned text again returns it unchanged.
C3_Idempotent == ct_pc = "recleaned" => recleaned = cleaned

\* C4: the output of clean_text contains no match of the URL pattern.
C4_NoUrlInOutput == ct_pc # "input" => ~HasUrl(cleaned)

C4_Witness ==
    /\ ct_pc = "cleaned"
    /\ HasUrl(text)
    /\ cleaned # <<>>
    /\ \E i \in 1..(Len(cleaned) - 3) : SubSeq(cleaned, i, i + 3) = <<"h","t","t","p">>

\* C5: for a text with no rejected prefix, fewer than 3 tokens after URL
\* removal gives the empty string; 3 or more give the tokens of the text
\* without its URLs, joined by single spaces with nothing around them; a
\* single-spaced 3-token text without URLs is returned unchanged.
C5_LengthRule ==
    (ct_pc = "cleaned" /\ ~StartsWithAnnouncement(text)) =>
        LET n == TokenCount(remove_urls(text))
        IN  /\ n < 3 => cleaned = <<>>
            /\ n >= 3 => /\ split(cleaned) = split(remove_urls(text))
                         /\ TokenCount(cleaned) = n
                         /\ SingleSpaced(cleaned)
            /\ (TokenCount(text) = 3 /\ ~HasUrl(text) /\ SingleSpaced(text))
                   => cleaned = text

C5_Witness ==
    /\ ct_pc = "cleaned"
    /\ ~StartsWithAnnouncement(text)
    /\ HasUrl(text)
    /\ TokenCount(text) = 4
    /\ TokenCount(cleaned) = 3
    /\ cleaned # text

\* C6: a text whose trimmed form starts with one of the ten announcement
\* prefixes is cleaned to the empty string, whatever follows the prefix.
C6_PrefixRejected ==
    (ct_pc = "cleaned" /\ StartsWithAnnouncement(text)) => cleaned = <<>>

C6_Witness ==
    /\ ct_pc = "cleaned"
    /\ StartsWithAnnouncement(text)
    /\ text[1] \in {" ", "\n"}
    /\ TokenCount(text) >= 3
    /\ ~HasUrl(text)
    /\ cleaned = <<>>

-----------------------------------------------------------------------------
(* analyze_sentiment on a text the engine gives some compound score *)

ScoreWords ==
    { <<"G","O","O","D">>,
      <<"w","h","a","t","e","v","e","r">>,
      <<"f","i","n","e">> }

ScoreInputs ==
    { join(ws) : ws \in UNION { [1..n -> ScoreWords] : n \in 0..MaxWords } }

\* the engine's compound scores, -1.00..1.00 in hundredths
Compounds == -100..100

InitScore ==
    /\ as_pc = "input"
    /\ as_text \in ScoreInputs
    /\ compound \in Compounds
    /\ has_opinion = FALSE
    /\ raw_confidence = 0
    /\ result = <<>>
    /\ CtIdle /\ FtIdle /\ MainIdle

\* result = analyze_sentiment(as_text), the engine returning compound
AnalyzeSentiment ==
    /\ as_pc = "input"
    /\ has_opinion' = (as_text # <<>> /\ detect_opinion(as_text))
    /\ raw_confidence' =
           IF as_text = <<>> THEN 0
           ELSE classify(compound, detect_opinion(as_text)).confidence
    /\ result' = analyze_sentiment(as_text, compound)
    /\ as_pc' = "done"
    /\ UNCHANGED <<as_text, compound, ctVars, ftVars, mainVars>>

NextScore == AnalyzeSentiment

SpecScore == InitScore /\ [][NextScore]_vars

\* C1: for a non-empty text, label and unrounded confidence follow the
\* two-regime policy: with an opinion marker, c >= 0.3 is positive and
\* c <= -0.3 negative, confidence min(|c| * 1.2, 1); without one, c >= 0.5 is
\* positive and c <= -0.5 negative, confidence min(|c|, 1); otherwise neutral
\* with confidence 1 - |c|.
C1_ThresholdPolicy ==
    (as_pc = "done" /\ as_text # <<>>) =>
        LET a == IF compound < 0 THEN -compound ELSE compound
            bar == IF has_opinion THEN 30 ELSE 50
            hit == IF has_opinion
                   THEN (IF a * 12 < 1000 THEN a * 12 ELSE 1000)
                   ELSE (IF a * 10 < 1000 THEN a * 10 ELSE 1000)
        IN  /\ compound >= bar =>
                result.sentiment = "positive" /\ raw_confidence = hit
            /\ compound <= -bar =>
                result.sentiment = "negative" /\ raw_confidence = hit
            /\ (-bar < compound /\ compound < bar) =>
                result.sentiment = "neutral" /\ raw_confidence = 1000 - a * 10

\* compound 0.4 with a marker: positive, confidence 0.48
C1_Witness ==
    /\ as_pc = "done"
    /\ has_opinion
    /\ compound = 40
    /\ result.sentiment = "positive"
    /\ raw_confidence = 480
    /\ result.confidence = 48

\* C2: a non-empty text is treated as opinion text if and only if one of the
\* tokens of the lowercased text is a word of the opinion vocabulary.
C2_TokenMembership ==
    (as_pc = "done" /\ as_text # <<>>) =>
        (has_opinion <=>
            \E k \in 1..Len(split(lower(as_text))) :
                split(lower(as_text))[k] \in opinion_words)

-----------------------------------------------------------------------------
(* fetch_tweets: the loop over the paginator's pages *)

InitFetch ==
    /\ ft_pc = "loop"
    /\ max_tweets \in 1..MaxTweetsArg
    /\ tweets = <<>>
    /\ pages_fetched = 0
    /\ delivered = 0
    /\ ft_message = "none"
    /\ CtIdle /\ AsIdle /\ MainIdle

\* one iteration of the for loop: a page of k posts is appended when it has
\* any; a list that reached max_tweets is cut to it and the loop left
ReceivePage ==
    /\ ft_pc = "loop"
    /\ pages_fetched < page_limit(max_tweets)
    /\ \E k \in 0..max_results :
        LET got == IF k > 0 THEN tweets \o page_posts(delivered + 1, k) ELSE tweets
        IN  /\ delivered' = delivered + k
            /\ pages_fetched' = pages_fetched + 1
            /\ IF k > 0 /\ Len(got) >= max_tweets
               THEN tweets' = slice(got, max_tweets) /\ ft_pc' = "returned"
               ELSE tweets' = got /\ ft_pc' = "loop"
    /\ UNCHANGED <<max_tweets, ft_message, ctVars, asVars, mainVars>>

\* the paginator has no further page (its limit is reached or the service
\* gave no next token): the loop ends and tweets is returned
PaginatorEnds ==
    /\ ft_pc = "loop"
    /\ pages_fetched >= 1
    /\ ft_pc' = "returned"
    /\ UNCHANGED <<max_tweets, tweets, pages_fetched, delivered, ft_message,
                   ctVars, asVars, mainVars>>

\* the request for the next page raises tweepy.TooManyRequests
RateLimited ==
    /\ ft_pc = "loop"
    /\ pages_fetched < page_limit(max_tweets)
    /\ ft_message' = "Rate limit reached"
    /\ ft_pc' = "returned"
    /\ UNCHANGED <<max_tweets, tweets, pages_fetched, delivered, ctVars, asVars, mainVars>>

\* the request for the next page raises another exception
FetchFails ==
    /\ ft_pc = "loop"
    /\ pages_fetched < page_limit(max_tweets)
    /\ ft_message' = "Error fetching tweets"
    /\ ft_pc' = "returned"
    /\ UNCHANGED <<max_tweets, tweets, pages_fetched, delivered, ctVars, asVars, mainVars>>

NextFetch == ReceivePage \/ PaginatorEnds \/ RateLimited \/ FetchFails

SpecFetch == InitFetch /\ [][NextFetch]_vars

\* every request is answered, by a page or by an exception, and the loop goes
\* on while the paginator has pages
SpecFetchFair == SpecFetch /\ WF_vars(NextFetch)

\* C10: fetch_tweets requests at most (max_tweets + 9) // 10 pages and
\* returns; what it returns has at most max_tweets posts and is a prefix of
\* the posts delivered, in their order.
C10_FetchBounded ==
    /\ [](pages_fetched * 10 <= max_tweets + 9)
    /\ [](ft_pc = "returned" =>
            /\ Len(tweets) <= max_tweets
            /\ Len(tweets) <= delivered
            /\ \A i \in 1..Len(tweets) : tweets[i] = i)
    /\ <>(ft_pc = "returned")

\* a page that takes the list past max_tweets, which is cut to max_tweets
C10_Witness ==
    /\ ft_pc = "returned"
    /\ pages_fetched = 2
    /\ delivered > max_tweets
    /\ Len(tweets) = max_tweets

-----------------------------------------------------------------------------
(* main: one run of the page with the engine scoring each text some way *)

\* posts the search returns: an announcement, a post too short once its URL
\* is removed, and three posts that are scored
SamplePosts ==
    { <<"J","U","S","T"," ","I","N",":"," ","s"," ","s">>,
      <<"s"," ","w","w","w","s"," ","s">>,
      <<"G","O","O","D"," ","s"," ","s">>,
      <<"s"," ","s"," ","s">>,
      <<"s"," ","s","\n","f","i","n","e">> }

\* compound scores the engine may give a text, in hundredths
CompoundSamples == {-60, -40, 40, 60}

ScoredTexts == { clean_text(t) : t \in SamplePosts } \ { <<>> }

InitMain ==
    /\ pc = "start"
    /\ engine \in [ScoredTexts -> CompoundSamples]
    /\ fetched = <<>>
    /\ df = <<>>
    /\ message = "none"
    /\ plot = <<>>
    /\ stats = <<>>
    /\ CtIdle /\ AsIdle /\ FtIdle

\* setup_twitter_client returns None: main returns
ClientMissing ==
    /\ pc = "start"
    /\ message' = "Error initializing Twitter client"
    /\ pc' = "returned"
    /\ UNCHANGED <<engine, fetched, df, plot, stats, ctVars, asVars, ftVars>>

\* the "Run Analysis" button is not pressed
NotRun ==
    /\ pc = "start"
    /\ pc' = "returned"
    /\ UNCHANGED <<engine, fetched, df, message, plot, stats, ctVars, asVars, ftVars>>

\* the button is pressed with no celebrity name
NameMissing ==
    /\ pc = "start"
    /\ message' = "Please enter a celebrity name."
    /\ pc' = "returned"
    /\ UNCHANGED <<engine, fetched, df, plot, stats, ctVars, asVars, ftVars>>

\* tweets = fetch_tweets(...): some list of posts
FetchTweets ==
    /\ pc = "start"
    /\ fetched' \in UNION { [1..n -> SamplePosts] : n \in 0..MaxPosts }
    /\ pc' = "fetched"
    /\ UNCHANGED <<engine, df, message, plot, stats, ctVars, asVars, ftVars>>

\* if not tweets: warning and return
NoTweetsFound ==
    /\ pc = "fetched"
    /\ fetched = <<>>
    /\ message' = "No tweets found"
    /\ pc' = "done"
    /\ UNCHANGED <<engine, fetched, df, plot, stats, ctVars, asVars, ftVars>>

\* the data frame of the posts (never empty here), its cleaned_text column,
\* the rows with an empty cleaned text dropped; no row left: warning and return
CleanTweets ==
    /\ pc = "fetched"
    /\ fetched # <<>>
    /\ df' = drop_empty(with_cleaned_text(fetched))
    /\ IF df' = <<>>
       THEN message' = "No valid tweets remained after cleaning." /\ pc' = "done"
       ELSE message' = message /\ pc' = "cleaned"
    /\ UNCHANGED <<engine, fetched, plot, stats, ctVars, asVars, ftVars>>

\* df['cleaned_text'].apply(analyze_sentiment) and the columns made from it
ScoreTweets ==
    /\ pc = "cleaned"
    /\ df' = with_sentiment(df, engine)
    /\ pc' = "scored"
    /\ UNCHANGED <<engine, fetched, message, plot, stats, ctVars, asVars, ftVars>>

\* the engine raises: the except clause of main reports it
EngineRaises ==
    /\ pc = "cleaned"
    /\ message' = "An error occurred"
    /\ pc' = "done"
    /\ UNCHANGED <<engine, fetched, df, plot, stats, ctVars, asVars, ftVars>>

\* fig = plot_sentiment(df); st.pyplot(fig)
PlotSentiment ==
    /\ pc = "scored"
    /\ plot' = plot_sentiment(df)
    /\ pc' = "plotted"
    /\ UNCHANGED <<engine, fetched, df, message, stats, ctVars, asVars, ftVars>>

\* if len(df) > 0: the sample table, the statistics and the distribution
ShowStatistics ==
    /\ pc = "plotted"
    /\ stats' = IF Len(df) > 0 THEN statistics(df) ELSE stats
    /\ pc' = "done"
    /\ UNCHANGED <<engine, fetched, df, message, plot, ctVars, asVars, ftVars>>

NextMain ==
    \/ ClientMissing \/ NotRun \/ NameMissing \/ FetchTweets \/ NoTweetsFound
    \/ CleanTweets \/ ScoreTweets \/ EngineRaises \/ PlotSentiment \/ ShowStatistics

SpecMain == InitMain /\ [][NextMain]_vars

Labels == {"positive", "neutral", "negative"}

\* the number of scored posts labelled l
Carrying(l) == Cardinality({ i \in 1..Len(df) : df[i].sentiment_label = l })

\* the first label of order that has the largest number of posts
FirstOfLargest(order) ==
    order[CHOOSE k \in 1..3 :
        /\ \A l \in Labels : Carrying(l) <= Carrying(order[k])
        /\ \A j \in 1..(k - 1) : Carrying(order[j]) < Carrying(order[k])]

\* C7 as stated: the most common sentiment is a label with the largest
\* count, the first of them in the order positive, neutral, negative.
C7_ModeCanonicalOrder ==
    stats # <<>> => stats.most_common = FirstOfLargest(<<"positive", "neutral", "negative">>)

\* C7 amended: the most common sentiment is a label with the largest count,
\* the first of them in alphabetical order: negative, neutral, positive.
C7_ModeAlphabeticalOrder ==
    stats # <<>> => stats.most_common = FirstOfLargest(<<"negative", "neutral", "positive">>)

\* positive and negative tie for the largest count
C7_Witness ==
    /\ stats # <<>>
    /\ Carrying("positive") = Carrying("negative")
    /\ Carrying("positive") > Carrying("neutral")
    /\ stats.most_common = "negative"

\* p, in tenths of a percent, is n / total * 100 rounded to one decimal
RoundedPercentage(p, n, total) ==
    /\ 2 * (p * total - n * 1000) <= total
    /\ 2 * (n * 1000 - p * total) <= total

\* counts and percentages c, p are right for the labels in ls
RightFor(c, p, ls) ==
    /\ ls \subseteq DOMAIN c
    /\ ls \subseteq DOMAIN p
    /\ \A l \in ls : c[l] = Carrying(l) /\ RoundedPercentage(p[l], Carrying(l), Len(df))

\* C9 as stated: the aggregate has a count for each of the three labels, 0
\* for a label no post carries, and its percentage rounded to one decimal.
C9_CountsForAllLabels ==
    /\ plot # <<>> => RightFor(plot.sentiment_counts, plot.percentages, Labels)
    /\ stats # <<>> => RightFor(stats.sentiment_counts, stats.percentages, Labels)

\* C9 amended: the aggregate has a count for exactly the labels that some
\* post carries, equal to the number of posts carrying it; the counts sum to
\* the number of posts; each percentage is count / total * 100 rounded to one
\* decimal.
C9_CountsForLabelsPresent ==
    LET present == { l \in Labels : Carrying(l) > 0 }
        Right(c, p) ==
            /\ DOMAIN c = present
            /\ DOMAIN p = present
            /\ RightFor(c, p, present)
            /\ Carrying("positive") + Carrying("neutral") + Carrying("negative") = Len(df)
    IN  /\ plot # <<>> => Right(plot.sentiment_counts, plot.percentages)
        /\ stats # <<>> => Right(stats.sentiment_counts, stats.percentages)

\* two posts of one label, one of another, none of the third: 66.7 and 33.3
C9_Witness ==
    /\ stats # <<>>
    /\ \E a, b \in DOMAIN stats.sentiment_counts :
        /\ stats.sentiment_counts[a] = 2 /\ stats.percentages[a] = 667
        /\ stats.sentiment_counts[b] = 1 /\ stats.percentages[b] = 333
    /\ DOMAIN stats.sentiment_counts # Labels

\* every fetched post is cleaned to the empty string (or none was fetched)
NothingToAnalyze == \A i \in 1..Len(fetched) : clean_text(fetched[i]) = <<>>

\* C8: a run whose fetched posts are none or all cleaned to the empty string
\* ends with a "no tweets" warning and never scores, plots or summarizes;
\* scoring, the plot and the statistics are reached only with a non-empty
\* collection of posts that have a cleaned text.
C8_EmptyIsWarned ==
    /\ (pc = "done" /\ NothingToAnalyze) =>
            /\ message \in {"No tweets found", "No valid tweets remained after cleaning."}
            /\ (fetched = <<>> <=> message = "No tweets found")
            /\ plot = <<>> /\ stats = <<>>
    /\ (pc \in {"cleaned", "scored", "plotted"} \/ plot # <<>> \/ stats # <<>>) =>
            /\ ~NothingToAnalyze
            /\ Len(df) > 0
            /\ \A i \in 1..Len(df) : df[i].cleaned_text # <<>>

\* a run that fetched posts, all of them dropped by the cleaning
C8_Witness ==
    /\ pc = "done"
    /\ Len(fetched) >= 2
    /\ NothingToAnalyze
    /\ message = "No valid tweets remained after cleaning."
    /\ df = <<>>

=============================================================================
